---- MODULE Spec2Model ----
(***************************************************************************)
(* A model of the LEGO collection explorer, src/src/App.tsx: the App       *)
(* component's state (useState), its two effects (the one-time load and    *)
(* the suggestion recomputation), its four memoised derivations            *)
(* (themeStats, overallStats, filteredSets, sortedSets) and its event      *)
(* handlers.                                                               *)
(*                                                                         *)
(* Strings that the code inspects character by character (names, item      *)
(* numbers, the search text) are sequences of one-character strings.       *)
(* Strings that are only compared for equality (themes, sort keys) are     *)
(* TLA+ strings.  A value that may be null is a sequence of length 0       *)
(* (null) or 1 (the value).                                                *)
(***************************************************************************)
EXTENDS Integers, Sequences, FiniteSets, TLC

VARIABLES
    sets,           \* useState<LegoSet[]>([])
    loading,        \* useState(true)
    error,          \* useState<string | null>(null)
    activeTheme,    \* useState<string>('All Themes')
    search,         \* useState('')
    selectedSet,    \* useState<LegoSet | null>(null)
    sortBy,         \* useState<SortOption>('retail')
    suggestions,    \* useState<LegoSet[]>([])
    themeStats,     \* useMemo, deps [sets]
    overallStats,   \* useMemo, deps [sets]
    filteredSets,   \* useMemo, deps [activeTheme, search, sets]
    sortedSets,     \* useMemo, deps [filteredSets, sortBy]
    loadPc,         \* position of the async load() of the first effect
    cancelled,      \* the load effect's `cancelled` flag (set by its cleanup)
    effectPending,  \* the suggestion effect is scheduled and has not run yet
    picked,         \* history: the record of the last user action, if it chose a suggestion
    preFilter       \* history: the list displayed when a theme was selected from 'All Themes'

vars == <<sets, loading, error, activeTheme, search, selectedSet, sortBy, suggestions,
          themeStats, overallStats, filteredSets, sortedSets, loadPc, cancelled,
          effectPending, picked, preFilter>>

(***************************************************************************)
(* Bounds of the model and constants of the program.                       *)
(***************************************************************************)
\* Longest catalogue built freely from the record shapes.
MaxRecords == 3
\* Length of the long catalogues (more matches than the suggestion limit).
MaxLong == 7
\* Longest search text typed into the search box.
MaxSearchLen == 2
\* .slice(0, 6) of the suggestion effect.
SuggestionLimit == 6
\* themeStats.slice(0, 15): the theme cards shown.
ThemeCardLimit == 15
\* Number.MAX_SAFE_INTEGER is 2^53 - 1 in the program.  TLC's integers are
\* 32 bits wide, so the model takes the largest of them: what matters is that
\* it is the largest year a record can carry and the start value of the minimum.
MAX_SAFE_INTEGER == 2147483647

Null == <<>>
Some(v) == <<v>>
IsNull(o) == o = <<>>
AllThemes == "All Themes"
Misc == "Misc"
LoadErrorMessage == "Failed to load collection data. Refresh to try again."
SortOptions == {"retail", "year", "name"}

(***************************************************************************)
(* Strings.                                                                *)
(***************************************************************************)
SPACE == " "
Whitespace == {" ", "\t"}
Chars == {"a", "B", " "}

\* String.prototype.toLowerCase, character by character.
ToLowerChar(c) == IF c = "A" THEN "a" ELSE IF c = "B" THEN "b" ELSE c
ToLowerCase(s) == [i \in 1..Len(s) |-> ToLowerChar(s[i])]

\* String.prototype.includes: needle occurs as a contiguous substring of hay.
Includes(hay, needle) ==
    \E i \in 0..(Len(hay) - Len(needle)) :
        \A j \in 1..Len(needle) : hay[i + j] = needle[j]

\* String.prototype.trim: whitespace removed from both ends.
Trim(s) ==
    LET keep == {i \in 1..Len(s) : s[i] \notin Whitespace}
    IN  IF keep = {} THEN <<>>
        ELSE LET lo == CHOOSE i \in keep : \A j \in keep : i <= j
                 hi == CHOOSE i \in keep : \A j \in keep : i >= j
             IN  SubSeq(s, lo, hi)

\* Truthiness of a string: the empty string is falsy.
Truthy(s) == Len(s) > 0

\* The collation rank of a character at sensitivity 'base': whitespace before
\* digits before letters, a letter and its capital alike.
BaseRank(c) ==
    CASE c = "\t" -> 0
      [] c = " "  -> 1
      [] c = "1"  -> 2
      [] c \in {"a", "A"} -> 3
      [] c \in {"b", "B"} -> 4
      [] OTHER -> 5

\* a.localeCompare(b, undefined, { sensitivity: 'base' }): negative, zero or positive.
LocaleCompare(a, b) ==
    LET n == IF Len(a) < Len(b) THEN Len(a) ELSE Len(b)
        diff == {i \in 1..n : BaseRank(a[i]) # BaseRank(b[i])}
    IN  IF diff = {}
        THEN Len(a) - Len(b)
        ELSE LET k == CHOOSE i \in diff : \A j \in diff : i <= j
             IN  BaseRank(a[k]) - BaseRank(b[k])

(***************************************************************************)
(* Records (type LegoSet): the fields the component reads.                 *)
(***************************************************************************)
Price(uk, us, ca, de) == [uk |-> uk, us |-> us, ca |-> ca, de |-> de]

Shape(name, number, theme, yearFrom, retailPrice, bricklinkNew, pieces) ==
    [name |-> name, number |-> number, theme |-> theme, yearFrom |-> yearFrom,
     retailPrice |-> retailPrice, bricklinkNew |-> bricklinkNew, pieces |-> pieces]

\* The record shapes catalogues are built from.  Names that differ only in
\* case, a shared item number, an empty theme, a theme spelled like the
\* no-filter sentinel, unknown, absent and extreme years, prices present under
\* different currencies, equal, zero and absent.
Shapes ==
    { Shape(<<"A", "b">>, <<"1">>, "Space", Some(2020),
            Price(Some(50), Null, Null, Null), Some(60), Some(100)),
      Shape(<<"a", "b">>, <<"1">>, "Space", Some(2018),
            Price(Null, Some(40), Null, Null), Null, Null),
      Shape(<<"b", " ", "a">>, <<"1", "1">>, "Castle", Some(2022),
            Price(Some(0), Some(40), Null, Null), Some(5), Some(10)),
      Shape(<<"a">>, <<"1">>, "", Null,
            Price(Null, Null, Null, Null), Null, Some(3)),
      Shape(<<"B">>, <<"1">>, AllThemes, Some(0),
            Price(Null, Null, Some(50), Null), Some(1), Null),
      Shape(<<"b">>, <<"1", "1">>, "Castle", Some(MAX_SAFE_INTEGER),
            Price(Null, Null, Null, Some(7)), Null, Some(1)) }

LongShapes ==
    { Shape(<<"A", "b">>, <<"1">>, "Space", Some(2020),
            Price(Some(50), Null, Null, Null), Some(60), Some(100)),
      Shape(<<"a">>, <<"1">>, "", Null,
            Price(Null, Null, Null, Null), Null, Some(3)) }

\* A record: a shape with its stable identifier, here its position in the document.
WithId(shape, i) == [id |-> i] @@ shape

(***************************************************************************)
(* Derived-value accessors.                                                *)
(***************************************************************************)
\* uk ?? us ?? ca ?? de ?? null
preferredRetail(set) ==
    IF ~IsNull(set.retailPrice.uk) THEN set.retailPrice.uk
    ELSE IF ~IsNull(set.retailPrice.us) THEN set.retailPrice.us
    ELSE IF ~IsNull(set.retailPrice.ca) THEN set.retailPrice.ca
    ELSE IF ~IsNull(set.retailPrice.de) THEN set.retailPrice.de
    ELSE Null

\* value ?? 0
OrZero(o) == IF IsNull(o) THEN 0 ELSE o[1]

\* set.yearFrom || 0
yearFromSet(set) ==
    IF IsNull(set.yearFrom) \/ set.yearFrom[1] = 0 THEN 0 ELSE set.yearFrom[1]

MathMin(a, b) == IF a < b THEN a ELSE b
MathMax(a, b) == IF a > b THEN a ELSE b

(***************************************************************************)
(* The comparators handed to Array.prototype.sort, by the key they sort on.*)
(***************************************************************************)
\* (a, b) => yearFromSet(b) - yearFromSet(a)
CompareYear(a, b) == yearFromSet(b) - yearFromSet(a)
\* (a, b) => a.name.localeCompare(b.name, undefined, { sensitivity: 'base' })
CompareName(a, b) == LocaleCompare(a.name, b.name)
\* (a, b) => (preferredRetail(b) ?? 0) - (preferredRetail(a) ?? 0)
CompareRetail(a, b) == OrZero(preferredRetail(b)) - OrZero(preferredRetail(a))
\* (a, b) => b.value - a.value
CompareValue(a, b) == b.value - a.value

Compare(key, a, b) ==
    CASE key = "year"  -> CompareYear(a, b)
      [] key = "name"  -> CompareName(a, b)
      [] key = "value" -> CompareValue(a, b)
      [] OTHER         -> CompareRetail(a, b)

(***************************************************************************)
(* Array.prototype.sort with a comparator: a stable sort.  One element at  *)
(* a time is inserted behind the last element it does not precede.         *)
(***************************************************************************)
\* The insertion of an unstable sort: in front of the elements of equal key.
InsertSortedUnstable(sorted, x, key) ==
    LET before == {j \in 1..Len(sorted) : Compare(key, sorted[j], x) < 0}
        p == IF before = {} THEN 0
             ELSE CHOOSE j \in before : \A k \in before : k <= j
    IN  SubSeq(sorted, 1, p) \o <<x>> \o SubSeq(sorted, p + 1, Len(sorted))

InsertSorted(sorted, x, key) ==
    LET notAfter == {j \in 1..Len(sorted) : ~(Compare(key, x, sorted[j]) < 0)}
        p == IF notAfter = {} THEN 0
             ELSE CHOOSE j \in notAfter : \A k \in notAfter : k <= j
    IN  SubSeq(sorted, 1, p) \o <<x>> \o SubSeq(sorted, p + 1, Len(sorted))

ArraySort(s, key) ==
    LET F[n \in 0..Len(s)] ==
            IF n = 0 THEN <<>> ELSE InsertSorted(F[n - 1], s[n], key)
    IN  F[Len(s)]

\* Array.prototype.filter; keep holds the indexes the callback accepts.
ArrayFilter(s, keep) ==
    LET F[n \in 0..Len(s)] ==
            IF n = 0 THEN <<>>
            ELSE IF n \in keep THEN Append(F[n - 1], s[n]) ELSE F[n - 1]
    IN  F[Len(s)]

\* Array.prototype.slice(0, n)
SliceFirst(s, n) == SubSeq(s, 1, MathMin(n, Len(s)))

(***************************************************************************)
(* themeStats: the per-theme rollups.                                      *)
(***************************************************************************)
\* set.theme || 'Misc'
ThemeKey(set) == IF set.theme # "" THEN set.theme ELSE Misc

\* One iteration of the for loop: map.get(key) ?? {fresh}, update, map.set.
\* The map is the sequence of its values in insertion order.
AddToThemeMap(map, set) ==
    LET key == ThemeKey(set)
        at == {i \in 1..Len(map) : map[i].theme = key}
        existing == IF at = {}
                    THEN [theme |-> key, sets |-> 0, value |-> 0,
                          earliestYear |-> MAX_SAFE_INTEGER, latestYear |-> 0]
                    ELSE map[CHOOSE i \in at : TRUE]
        year == yearFromSet(set)
        updated == [existing EXCEPT
                        !.sets = @ + 1,
                        !.value = @ + OrZero(preferredRetail(set)),
                        !.earliestYear = IF year # 0 THEN MathMin(@, year) ELSE @,
                        !.latestYear = IF year # 0 THEN MathMax(@, year) ELSE @]
    IN  IF at = {} THEN Append(map, updated)
        ELSE [map EXCEPT ![CHOOSE i \in at : TRUE] = updated]

ThemeMap(records) ==
    LET F[n \in 0..Len(records)] ==
            IF n = 0 THEN <<>> ELSE AddToThemeMap(F[n - 1], records[n])
    IN  F[Len(records)]

\* earliestYear === Number.MAX_SAFE_INTEGER ? 0 : earliestYear
FinishStat(stat) ==
    [stat EXCEPT !.earliestYear = IF @ = MAX_SAFE_INTEGER THEN 0 ELSE @]

computeThemeStats(records) ==
    LET map == ThemeMap(records)
    IN  ArraySort([i \in 1..Len(map) |-> FinishStat(map[i])], "value")

(***************************************************************************)
(* overallStats and the average price shown.                               *)
(***************************************************************************)
\* The summand of each reduce: preferredRetail(set) ?? 0,
\* set.bricklink.new ?? 0, set.pieces ?? 0.
Summand(set, field) ==
    CASE field = "retail"       -> OrZero(preferredRetail(set))
      [] field = "bricklinkNew" -> OrZero(set.bricklinkNew)
      [] OTHER                  -> OrZero(set.pieces)

\* sets.reduce((sum, set) => sum + ..., 0)
SumOver(records, field) ==
    LET F[n \in 0..Len(records)] ==
            IF n = 0 THEN 0 ELSE F[n - 1] + Summand(records[n], field)
    IN  F[Len(records)]

computeOverallStats(records) ==
    [totalRetail |-> SumOver(records, "retail"),
     totalBricklinkNew |-> SumOver(records, "bricklinkNew"),
     totalPieces |-> SumOver(records, "pieces")]

\* A JavaScript number: a finite quotient, NaN or an infinity.
Finite(n, d) == [kind |-> "finite", num |-> n, den |-> d]
NaN == [kind |-> "NaN", num |-> 0, den |-> 0]
Infinity == [kind |-> "Infinity", num |-> 0, den |-> 0]

\* a / b for a non-negative total a and a count b.
Divide(a, b) ==
    IF b # 0 THEN Finite(a, b)
    ELSE IF a = 0 THEN NaN ELSE Infinity

\* The em dash the component shows for "no value".
DASH == [text |-> "--"]

\* formatCurrency without its Number.isNaN test.
formatCurrencyNaNFormatted(value) ==
    [text |-> "GBP", value |-> value,
     maximumFractionDigits |->
         IF value.kind = "Infinity" \/ value.num >= 100 * value.den THEN 0 ELSE 2]

\* formatCurrency(value): the dash for undefined, null and NaN, else the amount
\* in pounds with 0 fraction digits from 100 up and 2 below.
formatCurrency(value) ==
    IF value.kind = "NaN" THEN DASH
    ELSE [text |-> "GBP", value |-> value,
          maximumFractionDigits |->
              IF value.kind = "Infinity" \/ value.num >= 100 * value.den THEN 0 ELSE 2]

(***************************************************************************)
(* filteredSets, sortedSets and the suggestion list.                       *)
(***************************************************************************)
\* `${set.name} ${set.number}`.toLowerCase()
Haystack(set) == ToLowerCase(set.name \o <<SPACE>> \o set.number)

\* search ? haystack.includes(search.toLowerCase()) : true
MatchesSearch(set, text) ==
    IF Truthy(text) THEN Includes(Haystack(set), ToLowerCase(text)) ELSE TRUE

\* activeTheme === 'All Themes' || set.theme === activeTheme
MatchesTheme(set, theme) == theme = AllThemes \/ set.theme = theme

filterRecords(records, theme, text) ==
    ArrayFilter(records, {i \in 1..Len(records) :
        MatchesTheme(records[i], theme) /\ MatchesSearch(records[i], text)})

\* const clone = [...filteredSets]; switch (sortBy) ... clone.sort(...)
sortRecords(records, key) ==
    CASE key = "year" -> ArraySort(records, "year")
      [] key = "name" -> ArraySort(records, "name")
      [] OTHER        -> ArraySort(records, "retail")

\* The suggestion effect without its .slice(0, 6).
suggestUnlimited(records, text) ==
    IF ~Truthy(Trim(text)) THEN <<>>
    ELSE ArrayFilter(records,
             {i \in 1..Len(records) : Includes(Haystack(records[i]), ToLowerCase(text))})

\* The body of the suggestion effect.
suggest(records, text) ==
    IF ~Truthy(Trim(text)) THEN <<>>
    ELSE LET term == ToLowerCase(text)
             matches == ArrayFilter(records,
                 {i \in 1..Len(records) : Includes(Haystack(records[i]), term)})
         IN  SliceFirst(matches, SuggestionLimit)

(***************************************************************************)
(* The inputs: the documents sets.json may hold, and the texts typed.      *)
(***************************************************************************)
Catalogue(shapes) == [i \in DOMAIN shapes |-> WithId(shapes[i], i)]

\* Every document of up to MaxRecords records of the shapes above.
ShortPayloads ==
    {Catalogue(f) : f \in UNION {[1..n -> Shapes] : n \in 0..MaxRecords}}

\* The documents of MaxLong records that alternate two shapes.
LongPayloads ==
    {Catalogue([i \in 1..MaxLong |-> IF i % 2 = 1 THEN p[1] ELSE p[2]]) :
        p \in LongShapes \X LongShapes}

\* The documents a session of the application loads: the empty one and the long ones.
Payloads == {<<>>} \cup LongPayloads

SearchInputs == UNION {[1..n -> Chars] : n \in 0..MaxSearchLen}

(***************************************************************************)
(* The state after the first render: nothing loaded, both effects          *)
(* scheduled (the load has started, the suggestion effect has yet to run). *)
(***************************************************************************)
Init ==
    /\ sets = <<>>
    /\ loading = TRUE
    /\ error = Null
    /\ activeTheme = AllThemes
    /\ search = <<>>
    /\ selectedSet = Null
    /\ sortBy = "retail"
    /\ suggestions = <<>>
    /\ themeStats = computeThemeStats(<<>>)
    /\ overallStats = computeOverallStats(<<>>)
    /\ filteredSets = filterRecords(<<>>, AllThemes, <<>>)
    /\ sortedSets = sortRecords(filterRecords(<<>>, AllThemes, <<>>), "retail")
    /\ loadPc = "fetching"
    /\ cancelled = FALSE
    /\ effectPending = TRUE
    /\ picked = Null
    /\ preFilter = Null

\* A render whose filteredSets memo lacks activeTheme among its dependencies.
RenderStaleTheme(newSets) ==
    LET filterStale == newSets \/ search' # search
        sortStale == filterStale \/ sortBy' # sortBy
    IN  /\ themeStats' = IF newSets THEN computeThemeStats(sets') ELSE themeStats
        /\ overallStats' = IF newSets THEN computeOverallStats(sets') ELSE overallStats
        /\ filteredSets' = IF filterStale
                           THEN filterRecords(sets', activeTheme', search')
                           ELSE filteredSets
        /\ sortedSets' = IF sortStale
                         THEN sortRecords(filteredSets', sortBy')
                         ELSE sortedSets
        /\ effectPending' = (newSets \/ search' # search)

(***************************************************************************)
(* A render after state was set: each useMemo recomputes when one of its   *)
(* dependencies changed, and the suggestion effect is scheduled when       *)
(* search or sets changed.  newSets: setSets was called (a new array).     *)
(***************************************************************************)
Render(newSets) ==
    LET filterStale == newSets \/ activeTheme' # activeTheme \/ search' # search
        sortStale == filterStale \/ sortBy' # sortBy
    IN  /\ themeStats' = IF newSets THEN computeThemeStats(sets') ELSE themeStats
        /\ overallStats' = IF newSets THEN computeOverallStats(sets') ELSE overallStats
        /\ filteredSets' = IF filterStale
                           THEN filterRecords(sets', activeTheme', search')
                           ELSE filteredSets
        /\ sortedSets' = IF sortStale
                         THEN sortRecords(filteredSets', sortBy')
                         ELSE sortedSets
        /\ effectPending' = (newSets \/ search' # search)

\* The explorer rendered without the `if (loading)` early return.
ExplorerShownWhileLoading == IsNull(error)

\* if (loading) return ...; if (error) return ...: the explorer itself is
\* rendered, and its handlers exist, only past both early returns.
ExplorerShown == ~loading /\ IsNull(error)

\* The component is mounted and no effect of the last render is outstanding:
\* the next event can be handled.
Idle == ~cancelled /\ ~effectPending

\* The three lifecycle states the component shows.
Phase == IF loading THEN "loading" ELSE IF ~IsNull(error) THEN "failed" ELSE "ready"

(***************************************************************************)
(* The suggestion effect, deps [search, sets].                             *)
(***************************************************************************)
SuggestionEffect ==
    /\ effectPending
    /\ ~cancelled
    /\ suggestions' = suggest(sets, search)
    /\ effectPending' = FALSE
    /\ UNCHANGED <<sets, loading, error, activeTheme, search, selectedSet, sortBy,
                   themeStats, overallStats, filteredSets, sortedSets, loadPc,
                   cancelled, picked, preFilter>>

(***************************************************************************)
(* The load effect.  The two state setters of each branch are batched into *)
(* one render, or (without automatic batching) rendered one after another. *)
(***************************************************************************)
LoadCancelled ==
    /\ loadPc = "fetching"
    /\ cancelled
    /\ loadPc' = "done"
    /\ UNCHANGED <<sets, loading, error, activeTheme, search, selectedSet, sortBy,
                   suggestions, themeStats, overallStats, filteredSets, sortedSets,
                   cancelled, effectPending, picked, preFilter>>

\* The fetch resolves with one of the documents docs.
LoadDocument(docs) ==
    /\ loadPc = "fetching"
    /\ Idle
    /\ \E payload \in docs : sets' = payload
    /\ \/ loading' = FALSE /\ loadPc' = "done"
       \/ loading' = loading /\ loadPc' = "setSets"
    /\ UNCHANGED <<error, activeTheme, search, selectedSet, sortBy, suggestions,
                   cancelled, picked, preFilter>>
    /\ Render(TRUE)

LoadSucceed == LoadDocument(Payloads)

LoadFail ==
    /\ loadPc = "fetching"
    /\ Idle
    /\ error' = Some(LoadErrorMessage)
    /\ \/ loading' = FALSE /\ loadPc' = "done"
       \/ loading' = loading /\ loadPc' = "setError"
    /\ UNCHANGED <<sets, activeTheme, search, selectedSet, sortBy, suggestions,
                   cancelled, picked, preFilter>>
    /\ Render(FALSE)

\* setLoading(false), rendered on its own.
LoadFinish ==
    /\ loadPc \in {"setSets", "setError"}
    /\ Idle
    /\ loading' = FALSE
    /\ loadPc' = "done"
    /\ UNCHANGED <<sets, error, activeTheme, search, selectedSet, sortBy, suggestions,
                   cancelled, picked, preFilter>>
    /\ Render(FALSE)

\* The cleanup of the load effect: the component is unmounted while the load
\* is in flight.  (Once the load has settled the flag is never read again and
\* an unmounted component handles no event.)
Unmount ==
    /\ ~cancelled
    /\ loadPc = "fetching"
    /\ cancelled' = TRUE
    /\ UNCHANGED <<sets, loading, error, activeTheme, search, selectedSet, sortBy,
                   suggestions, themeStats, overallStats, filteredSets, sortedSets,
                   loadPc, effectPending, picked, preFilter>>

(***************************************************************************)
(* The event handlers.                                                     *)
(***************************************************************************)
\* The 'All Themes' card.
SelectAllThemes ==
    /\ ExplorerShown /\ Idle
    /\ activeTheme' = AllThemes
    /\ picked' = Null
    /\ UNCHANGED <<sets, loading, error, search, selectedSet, sortBy, suggestions,
                   loadPc, cancelled, preFilter>>
    /\ Render(FALSE)

\* One of the theme cards, themeStats.slice(0, 15).
SelectTheme ==
    /\ ExplorerShown /\ Idle
    /\ \E i \in 1..MathMin(ThemeCardLimit, Len(themeStats)) :
          /\ activeTheme' = themeStats[i].theme
          /\ preFilter' = IF activeTheme = AllThemes /\ themeStats[i].theme # AllThemes
                          THEN Some(sortedSets) ELSE preFilter
    /\ picked' = Null
    /\ UNCHANGED <<sets, loading, error, search, selectedSet, sortBy, suggestions,
                   loadPc, cancelled>>
    /\ Render(FALSE)

\* activeTheme === 'All Themes' ? null : themeStats.find(...)
activeThemeStat ==
    IF activeTheme = AllThemes THEN Null
    ELSE LET at == {i \in 1..Len(themeStats) : themeStats[i].theme = activeTheme}
         IN  IF at = {} THEN Null
             ELSE Some(themeStats[CHOOSE i \in at : \A j \in at : i <= j])

\* The 'Clear theme' chip of the theme detail section.
ClearTheme ==
    /\ ExplorerShown /\ Idle
    /\ ~IsNull(activeThemeStat)
    /\ activeTheme' = AllThemes
    /\ picked' = Null
    /\ UNCHANGED <<sets, loading, error, search, selectedSet, sortBy, suggestions,
                   loadPc, cancelled, preFilter>>
    /\ Render(FALSE)

\* onChange of the search box.
SetSearch ==
    /\ ExplorerShown /\ Idle
    /\ \E text \in SearchInputs : text # search /\ search' = text
    /\ picked' = Null
    /\ preFilter' = Null
    /\ UNCHANGED <<sets, loading, error, activeTheme, selectedSet, sortBy, suggestions,
                   loadPc, cancelled>>
    /\ Render(FALSE)

\* onClick of a suggestion.
PickSuggestion ==
    /\ ExplorerShown /\ Idle
    /\ \E i \in 1..Len(suggestions) :
          /\ selectedSet' = Some(suggestions[i])
          /\ suggestions' = <<>>
          /\ search' = suggestions[i].name
          /\ picked' = Some(suggestions[i])
    /\ preFilter' = IF search' # search THEN Null ELSE preFilter
    /\ UNCHANGED <<sets, loading, error, activeTheme, sortBy, loadPc, cancelled>>
    /\ Render(FALSE)

\* onChange of the sort select.
SetSortBy ==
    /\ ExplorerShown /\ Idle
    /\ \E key \in SortOptions : key # sortBy /\ sortBy' = key
    /\ picked' = Null
    /\ preFilter' = Null
    /\ UNCHANGED <<sets, loading, error, activeTheme, search, selectedSet, suggestions,
                   loadPc, cancelled>>
    /\ Render(FALSE)

\* onClick of a card of the gallery.
InspectSet ==
    /\ ExplorerShown /\ Idle
    /\ \E i \in 1..Len(sortedSets) : selectedSet' = Some(sortedSets[i])
    /\ picked' = Null
    /\ UNCHANGED <<sets, loading, error, activeTheme, search, sortBy, suggestions,
                   loadPc, cancelled, preFilter>>
    /\ Render(FALSE)

\* The close button of the detail drawer.
CloseDetail ==
    /\ ExplorerShown /\ Idle
    /\ ~IsNull(selectedSet)
    /\ selectedSet' = Null
    /\ picked' = Null
    /\ UNCHANGED <<sets, loading, error, activeTheme, search, sortBy, suggestions,
                   loadPc, cancelled, preFilter>>
    /\ Render(FALSE)

Next ==
    \/ SuggestionEffect
    \/ LoadCancelled
    \/ LoadSucceed
    \/ LoadFail
    \/ LoadFinish
    \/ Unmount
    \/ SelectAllThemes
    \/ SelectTheme
    \/ ClearTheme
    \/ SetSearch
    \/ PickSuggestion
    \/ SetSortBy
    \/ InspectSet
    \/ CloseDetail

Spec == Init /\ [][Next]_vars

(***************************************************************************)
(* The derivations over every short document: a session that loads one of  *)
(* them and then selects themes and sort keys.                             *)
(***************************************************************************)
LoadShort == LoadDocument(ShortPayloads)

NextShort ==
    \/ SuggestionEffect
    \/ LoadShort
    \/ LoadFinish
    \/ SelectAllThemes
    \/ SelectTheme
    \/ ClearTheme
    \/ SetSortBy

SpecShort == Init /\ [][NextShort]_vars

(***************************************************************************)
(* What the explorer shows of the averages.                                *)
(***************************************************************************)
\* formatCurrency(overallStats.totalRetail / sets.length)
AveragePriceShown == formatCurrency(Divide(overallStats.totalRetail, Len(sets)))

\* formatCurrency(activeThemeStat.value / activeThemeStat.sets)
ThemeAverageShown(stat) == formatCurrency(Divide(stat.value, stat.sets))

(***************************************************************************)
(* Vocabulary of the properties.                                           *)
(***************************************************************************)
IsBlank(text) == \A i \in 1..Len(text) : text[i] \in Whitespace

Range(s) == {s[i] : i \in 1..Len(s)}

\* The members of records at the indexes idx, in order.
Subsequence(records, idx) ==
    LET Nth[k \in 1..Cardinality(idx)] ==
            CHOOSE i \in idx : Cardinality({j \in idx : j < i}) = k - 1
    IN  [k \in 1..Cardinality(idx) |-> records[Nth[k]]]

\* The text predicate as specified: blank text passes every record, any
\* other text is looked up, lowercased, in lowercase(name + " " + number).
TextPasses(set, text) ==
    IsBlank(text) \/ Includes(ToLowerCase(set.name \o <<" ">> \o set.number), ToLowerCase(text))

SetMin(S) == CHOOSE x \in S : \A y \in S : x <= y
SetMax(S) == CHOOSE x \in S : \A y \in S : x >= y

\* The sort keys as specified, smaller first.
SortRank(set, key) ==
    CASE key = "retail" -> 0 - (IF IsNull(preferredRetail(set)) THEN 0 ELSE preferredRetail(set)[1])
      [] key = "year"   -> 0 - (IF IsNull(set.yearFrom) THEN 0 ELSE set.yearFrom[1])
      [] OTHER          -> 0

Precedes(a, b, key) ==
    IF key = "name" THEN LocaleCompare(a.name, b.name) < 0
    ELSE SortRank(a, key) < SortRank(b, key)

\* out is the stable sort of in by key: the same records, none out of
\* order, and records of equal key in the order they have in the input
\* (records carry their position in the document as id, and every list
\* sorted here is in document order).
IsStableSortOf(out, in, key) ==
    /\ Len(out) = Len(in)
    /\ Range(out) = Range(in)
    /\ \A i, j \in 1..Len(out) :
          i < j => /\ ~Precedes(out[j], out[i], key)
                   /\ ~Precedes(out[i], out[j], key) => out[i].id < out[j].id

(***************************************************************************)
(* The properties.                                                         *)
(***************************************************************************)
\* C1: after a suggestion for record r was selected, and until the next user
\* action, the inspected record is r, the search text is r's name and the
\* suggestion list is empty, also once the suggestion effect has run.
C1_PickedSuggestionStaysCleared ==
    ~IsNull(picked) =>
        /\ selectedSet = picked
        /\ search = picked[1].name
        /\ suggestions = <<>>

\* C2: the session starts loading; while it is loading or failed the query
\* state keeps its initial values; a failed session has an error and no
\* records, a ready one no error; the lifecycle state changes only out of
\* loading, so that ready and failed are each entered at most once and are
\* never left.
C2_LoadLifecycle ==
    /\ Phase = "loading"
    /\ [](/\ Phase \in {"loading", "ready", "failed"}
          /\ Phase # "ready" =>
                /\ activeTheme = AllThemes /\ search = <<>>
                /\ sortBy = "retail" /\ selectedSet = Null
                /\ suggestions = <<>>
          /\ Phase = "failed" => error = Some(LoadErrorMessage) /\ sets = <<>>
          /\ Phase = "ready" => IsNull(error) /\ loadPc = "done")
    /\ [][/\ Phase' # Phase => Phase = "loading"
          /\ Phase # "ready" => UNCHANGED <<activeTheme, search, sortBy, selectedSet>>
          /\ Phase # "loading" => UNCHANGED <<sets, error, loading>>]_vars

\* C2, witness: the load has failed, and the failed state is shown.
C2_Failed == Phase = "failed" /\ loadPc = "done" /\ ~cancelled

\* C3: the list the filter yields for the current search text holds exactly
\* the records of the selected theme that pass the text predicate, where
\* blank (empty or all-whitespace) text passes every record.
C3_BlankSearchPassesThrough ==
    filteredSets = Subsequence(sets, {i \in 1..Len(sets) :
        /\ (activeTheme = AllThemes \/ sets[i].theme = activeTheme)
        /\ TextPasses(sets[i], search)})

\* C4: for every theme that occurs in the data, filtering by it with empty
\* search text yields exactly the records of that theme, in input order.
C4_ThemeFilterIsExact ==
    \A cat \in {sets[i].theme : i \in 1..Len(sets)} :
        filterRecords(sets, cat, <<>>) =
            Subsequence(sets, {i \in 1..Len(sets) : sets[i].theme = cat})

\* C5: of every theme statistic, earliestYear and latestYear are the least
\* and the greatest positive release year among the theme's members, and
\* both are the "unknown" value 0 when no member has a positive year.
C5_YearRange ==
    \A k \in 1..Len(themeStats) :
        LET stat == themeStats[k]
            years == {sets[i].yearFrom[1] :
                        i \in {j \in 1..Len(sets) :
                                 /\ ThemeKey(sets[j]) = stat.theme
                                 /\ ~IsNull(sets[j].yearFrom)
                                 /\ sets[j].yearFrom[1] > 0}}
        IN  /\ years = {} => stat.earliestYear = 0 /\ stat.latestYear = 0
            /\ years # {} => /\ stat.earliestYear = SetMin(years)
                             /\ stat.latestYear = SetMax(years)
            /\ (stat.earliestYear # 0 /\ stat.latestYear # 0)
                  => stat.earliestYear <= stat.latestYear

\* C6: the average price shown is the dash when no record is loaded and the
\* formatted quotient totalRetail / count otherwise; no average shown, of
\* the collection or of a theme, is the format of a division by zero.
C6_AverageOfNothingIsDash ==
    ExplorerShown =>
        /\ Len(sets) = 0 => AveragePriceShown = DASH
        /\ Len(sets) > 0 =>
              /\ AveragePriceShown.text = "GBP"
              /\ AveragePriceShown.value =
                    Finite(SumOver(sets, "retail"), Len(sets))
        /\ \A k \in 1..Len(themeStats) :
              ThemeAverageShown(themeStats[k]).text = "GBP"
                  => ThemeAverageShown(themeStats[k]).value.kind = "finite"

\* C6, witness: the explorer is shown for an empty collection.
C6_EmptyCollectionShown == ExplorerShown /\ Len(sets) = 0 /\ ~effectPending

\* C7: every change of the search text schedules the suggestion effect, and
\* when the effect has run the suggestions are none for blank text and
\* otherwise the first 6 records of the whole collection, in its order,
\* that the filter's text predicate passes, whatever theme and sort key are
\* selected.
C7_SuggestionsSettled ==
    [][/\ search' # search => effectPending'
       /\ (effectPending /\ ~effectPending') =>
             suggestions' =
                 IF IsBlank(search') THEN <<>>
                 ELSE LET all == filterRecords(sets', AllThemes, search')
                      IN  [i \in 1..(IF Len(all) < 6 THEN Len(all) ELSE 6) |-> all[i]]]_vars

\* C7, witness: more than 6 records match, 6 are suggested, and the selected
\* theme and sort key show a different, shorter list.
C7_TruncatedSuggestions ==
    /\ ~effectPending
    /\ Len(suggestions) = 6
    /\ Len(filterRecords(sets, AllThemes, search)) > 6
    /\ activeTheme # AllThemes
    /\ sortBy # "retail"
    /\ Len(sortedSets) < 6

\* C8: for each sort key the sorted list is the stable sort of the filtered
\* list (equal keys keep their order), sorting it again changes nothing,
\* and the filtered list itself is still in the order of the data.
C8_SortStableIdempotent ==
    /\ \A key \in SortOptions :
          LET out == sortRecords(filteredSets, key)
          IN  /\ IsStableSortOf(out, filteredSets, key)
              /\ sortRecords(out, key) = out
    /\ IsStableSortOf(sortedSets, filteredSets, sortBy)
    /\ \A i, j \in 1..Len(filteredSets) : i < j => filteredSets[i].id < filteredSets[j].id

\* C8, witness: a sort by name that moved records and left records of equal
\* name next to each other.
C8_SortedWithTies ==
    /\ sortBy = "name"
    /\ sortedSets # filteredSets
    /\ \E i \in 1..(Len(sortedSets) - 1) :
          LocaleCompare(sortedSets[i].name, sortedSets[i + 1].name) = 0

\* C9: the list displayed is the sort of the filter of the current records,
\* theme, search text and sort key, whatever happened before; and after a
\* theme was selected and the filter cleared again, with search text and
\* sort key untouched, it is the list displayed before the selection.
C9_ClearRestoresList ==
    /\ sortedSets = sortRecords(filterRecords(sets, activeTheme, search), sortBy)
    /\ (activeTheme = AllThemes /\ ~IsNull(preFilter)) => sortedSets = preFilter[1]

\* C9, witness: a theme that hides some records was selected and cleared.
C9_ThemeCleared ==
    /\ activeTheme = AllThemes
    /\ ~IsNull(preFilter)
    /\ Len(sortedSets) >= 2
    /\ \E i, j \in 1..Len(sortedSets) : sortedSets[i].theme # sortedSets[j].theme

\* C10: for every theme statistic s, filtering by s.theme with empty search
\* text yields exactly the s.sets records counted in s.
C10_StatsAgreeWithFilter ==
    \A k \in 1..Len(themeStats) :
        LET stat == themeStats[k]
            shown == filterRecords(sets, stat.theme, <<>>)
        IN  /\ Len(shown) = stat.sets
            /\ shown = Subsequence(sets,
                   {i \in 1..Len(sets) : ThemeKey(sets[i]) = stat.theme})
====
